---- MODULE Spec2Model ----
(***************************************************************************)
(* Field arithmetic over p = 2^255 - 19 (toy-ed25519): the 32-byte codec   *)
(* unpack / pack and the 16-limb operations add, sub, mul, inverse, swap   *)
(* and carry of src/src/lib.rs, run as a chain                             *)
(*     bytes -> unpack -> arithmetic operations -> pack -> bytes.          *)
(*                                                                         *)
(* Representation of i64.  TLC's integers are 32 bits wide, the limbs of   *)
(* the code are i64 and reach about 2^42 inside mul.  An i64 value v is    *)
(* therefore the pair <<h, l>> with v = h * 2^16 + l and 0 <= l < 2^16,    *)
(* that is h = v >> 16 (arithmetic shift) and l = v & 0xffff.  Every       *)
(* operator below computes the exact integer result on such pairs; TLC     *)
(* stops with an overflow error should h leave the 32-bit range (a value   *)
(* of magnitude 2^47 or more), so no result is ever silently wrong.        *)
(* A FieldElement<i64, 16> is a 16-tuple of such pairs, items[i] of the    *)
(* code being items[i + 1] here; a FieldElement<u8, 32> is a 32-tuple of   *)
(* integers 0..255.                                                        *)
(***************************************************************************)
EXTENDS Integers, Sequences, FiniteSets, TLC

\* 1 << 16: the weight of the high part of an i64 pair.
B16 == 65536

\* TLC evaluates LET definitions and operator arguments on demand; the code
\* runs its statements in order.  Then(v, e) is e, with v evaluated first.
Then(v, e) == IF v = v THEN e ELSE e

----------------------------------------------------------------------------
(* i64 arithmetic on pairs *)

\* The i64 with value h * 2^16 + l, for any integers h and l.
Norm(h, l) == <<h + (l \div B16), l % B16>>

\* An integer literal (or a u8 widened by `as i64`) as an i64.
I64(n) == <<n \div B16, n % B16>>

\* x + y
WAdd(x, y) == Norm(x[1] + y[1], x[2] + y[2])

\* x - y
WSub(x, y) == Norm(x[1] - y[1], x[2] - y[2])

\* x * y.  The low parts' product can reach 2^32, so x's low part is split
\* in two bytes: xl * yl = (ah * yl) * 256 + al * yl.
WMul(x, y) ==
  LET ah == x[2] \div 256
      al == x[2] % 256
      m  == ah * y[2]
      hi == x[1] * y[1] * B16 + x[1] * y[2] + x[2] * y[1] + (m \div 256)
  IN Norm(hi, (m % 256) * 256 + al * y[2])

\* x >> 16 (arithmetic: the sign is kept)
\* A shift that rounds towards zero, as a division by 2^16 does: it loses the
\* sign-preserving floor of >> on negative values.
Shr16Trunc(x) == IF x[1] < 0 /\ x[2] # 0 THEN I64(x[1] + 1) ELSE I64(x[1])

Shr16(x) == I64(x[1])

\* x >> 8
Shr8(x) == <<x[1] \div 256, (x[1] % 256) * 256 + (x[2] \div 256)>>

\* x << 16
Shl16(x) == <<x[1] * B16 + x[2], 0>>

\* x << 8
Shl8(x) == Norm(x[1] * 256, x[2] * 256)

\* Bit j (0 or 1) of a two's-complement integer of any sign.
Bit(m, j) == (m \div (2 ^ j)) % 2

\* Bitwise and / xor of the low 8 bits of two integers.
And8(m, n) ==
  Bit(m, 0) * Bit(n, 0) + 2 * Bit(m, 1) * Bit(n, 1)
  + 4 * Bit(m, 2) * Bit(n, 2) + 8 * Bit(m, 3) * Bit(n, 3)
  + 16 * Bit(m, 4) * Bit(n, 4) + 32 * Bit(m, 5) * Bit(n, 5)
  + 64 * Bit(m, 6) * Bit(n, 6) + 128 * Bit(m, 7) * Bit(n, 7)

Xor8(m, n) ==
  ((Bit(m, 0) + Bit(n, 0)) % 2) + 2 * ((Bit(m, 1) + Bit(n, 1)) % 2)
  + 4 * ((Bit(m, 2) + Bit(n, 2)) % 2) + 8 * ((Bit(m, 3) + Bit(n, 3)) % 2)
  + 16 * ((Bit(m, 4) + Bit(n, 4)) % 2) + 32 * ((Bit(m, 5) + Bit(n, 5)) % 2)
  + 64 * ((Bit(m, 6) + Bit(n, 6)) % 2) + 128 * ((Bit(m, 7) + Bit(n, 7)) % 2)

\* Bitwise and / xor of two's-complement integers of any sign, a byte at a
\* time; 0 and -1 (all zeros, all ones) end the recursion.
RECURSIVE AndInt(_, _)
AndInt(m, n) ==
  IF m = 0 \/ n = 0 THEN 0
  ELSE IF m = -1 THEN n
  ELSE IF n = -1 THEN m
  ELSE 256 * AndInt(m \div 256, n \div 256) + And8(m, n)

RECURSIVE XorInt(_, _)
XorInt(m, n) ==
  IF m = 0 THEN n
  ELSE IF n = 0 THEN m
  ELSE IF m = -1 THEN -n - 1
  ELSE IF n = -1 THEN -m - 1
  ELSE 256 * XorInt(m \div 256, n \div 256) + Xor8(m, n)

\* x & y, x ^ y, !x on i64
WAnd(x, y) == <<AndInt(x[1], y[1]), AndInt(x[2], y[2])>>
WXor(x, y) == <<XorInt(x[1], y[1]), XorInt(x[2], y[2])>>
WNot(x) == <<-x[1] - 1, (B16 - 1) - x[2]>>

\* v as u8: the low 8 bits
AsU8(x) == x[2] % 256

----------------------------------------------------------------------------
(* FieldElement *)

Tup16(F(_)) ==
  <<F(0), F(1), F(2), F(3), F(4), F(5), F(6), F(7),
    F(8), F(9), F(10), F(11), F(12), F(13), F(14), F(15)>>

Tup32(F(_)) ==
  <<F(0), F(1), F(2), F(3), F(4), F(5), F(6), F(7),
    F(8), F(9), F(10), F(11), F(12), F(13), F(14), F(15),
    F(16), F(17), F(18), F(19), F(20), F(21), F(22), F(23),
    F(24), F(25), F(26), F(27), F(28), F(29), F(30), F(31)>>

\* FieldElement::<i64, 16>::default(): items = [0; 16]
Default16 == LET z(k) == I64(0) IN Tup16(z)

\* FieldElement::<u8, 32>::default(): items = [0; 32]
Default32 == LET z(k) == 0 IN Tup32(z)

\* [0i64; 32], the double-width product of mul
Product0 == LET z(k) == I64(0) IN Tup32(z)

\* A decoder without the mask on limb 15
unpackNoMask(self) ==
  LET limb(k) == WAdd(Shl8(I64(self[2 * k + 2])), I64(self[2 * k + 1]))
  IN Tup16(limb)

\* A decoder that masks limb 15 with 0x3fff: it drops bit 254 of the input.
unpackMask14(self) ==
  LET limb(k) == WAdd(Shl8(I64(self[2 * k + 2])), I64(self[2 * k + 1]))
      unpacked == Tup16(limb)
  IN [unpacked EXCEPT ![16] = WAnd(@, I64(16383))]

\* unpack: items[i] = (chunk[1] << 8) + chunk[0], then items[15] &= 0x7fff
unpack(self) ==
  LET limb(k) == WAdd(Shl8(I64(self[2 * k + 2])), I64(self[2 * k + 1]))
      unpacked == Tup16(limb)
  IN [unpacked EXCEPT ![16] = WAnd(@, I64(32767))]

\* add: items[i] = self.items[i] + other.items[i]
add(self, other) == LET s(k) == WAdd(self[k + 1], other[k + 1]) IN Tup16(s)

\* A subtraction with the operands exchanged: other.items[i] - self.items[i]
subReversed(self, other) == LET s(k) == WSub(other[k + 1], self[k + 1]) IN Tup16(s)

\* sub: items[i] = self.items[i] - other.items[i]
sub(self, other) == LET s(k) == WSub(self[k + 1], other[k + 1]) IN Tup16(s)

\* A carry step that wraps limb 15's carry into limb 0 without the factor 38
carryStepNoFactor(items, i) ==
  LET c == Shr16(items[i + 1])
      s1 == [items EXCEPT ![i + 1] = WSub(@, Shl16(c))]
  IN IF i < 15
     THEN [s1 EXCEPT ![i + 2] = WAdd(@, c)]
     ELSE [s1 EXCEPT ![1] = WAdd(@, c)]

\* A carry step that takes the carry from bit 15 up: c = items[i] >> 15
carryStepShift15(items, i) ==
  LET c == I64(2 * items[i + 1][1] + (items[i + 1][2] \div 32768))
      s1 == [items EXCEPT ![i + 1] = WSub(@, Shl16(c))]
  IN IF i < 15
     THEN [s1 EXCEPT ![i + 2] = WAdd(@, c)]
     ELSE [s1 EXCEPT ![1] = WAdd(@, WMul(I64(38), c))]

\* carry, the body of the loop for one i
carryStep(items, i) ==
  LET c == Shr16(items[i + 1])
      s1 == [items EXCEPT ![i + 1] = WSub(@, Shl16(c))]
  IN IF i < 15
     THEN [s1 EXCEPT ![i + 2] = WAdd(@, c)]
     ELSE [s1 EXCEPT ![1] = WAdd(@, WMul(I64(38), c))]

\* carry, the iterations lo..hi of the loop in order: lo..mid, then the rest
\* (the split keeps TLC's evaluation shallow; the order is the code's).
RECURSIVE carryLoop(_, _, _)
carryLoop(items, lo, hi) ==
  IF lo = hi THEN carryStep(items, lo)
  ELSE LET mid == (lo + hi) \div 2
           first == carryLoop(items, lo, mid)
       IN Then(first, carryLoop(first, mid + 1, hi))

\* carry: one left-to-right pass, for i in 0..16
carry(self) == carryLoop(self, 0, 15)

\* A row of the product whose inner loop stops one short: j in 0..15
mulRowShort(product, self, other, i) ==
  LET row(k) == IF k >= i /\ k <= i + 14
                THEN WAdd(product[k + 1], WMul(self[i + 1], other[k - i + 1]))
                ELSE product[k + 1]
  IN Tup32(row)

\* mul, first loop nest: product[i + j] += self.items[i] * other.items[j];
\* one call of mulRow is the inner loop over j for one i.
mulRow(product, self, other, i) ==
  LET row(k) == IF k >= i /\ k <= i + 15
                THEN WAdd(product[k + 1], WMul(self[i + 1], other[k - i + 1]))
                ELSE product[k + 1]
  IN Tup32(row)

\* mul, the iterations lo..hi of the outer loop in order
RECURSIVE mulLoop(_, _, _, _, _)
mulLoop(product, self, other, lo, hi) ==
  IF lo = hi THEN mulRow(product, self, other, lo)
  ELSE LET mid == (lo + hi) \div 2
           first == mulLoop(product, self, other, lo, mid)
       IN Then(first, mulLoop(first, self, other, mid + 1, hi))

\* A fold of the high half with the factor 38 applied to 4 * product[i + 16]
mulFoldWide(product) ==
  LET f(k) == IF k < 15
              THEN WAdd(product[k + 1], WMul(I64(38), WMul(I64(4), product[k + 17])))
              ELSE product[k + 1]
  IN Tup32(f)

\* A fold of the high half without the factor 38
mulFoldNoFactor(product) ==
  LET f(k) == IF k < 15
              THEN WAdd(product[k + 1], product[k + 17])
              ELSE product[k + 1]
  IN Tup32(f)

\* mul, second loop: product[i] += 38 * product[i + 16] for i in 0..15
\* (indices 0 to 14: product[15] receives no term).
mulFold(product) ==
  LET f(k) == IF k < 15
              THEN WAdd(product[k + 1], WMul(I64(38), product[k + 17]))
              ELSE product[k + 1]
  IN Tup32(f)

mul(self, other) ==
  LET product == mulFold(mulLoop(Product0, self, other, 0, 15))
      result == SubSeq(product, 1, 16)
      c1 == carry(result)
  IN Then(c1, carry(c1))

\* An exponentiation step that multiplies at every bit: exponent 2^255 - 1
inverseStepAllBits(result, self, i) ==
  LET sq == mul(result, result)
  IN Then(sq, mul(sq, self))

\* An exponentiation step that skips bits 1 and 3 in place of 2 and 4
inverseStepSkip13(result, self, i) ==
  LET sq == mul(result, result)
  IN IF i # 1 /\ i # 3 THEN Then(sq, mul(sq, self)) ELSE sq

\* inverse, the body of the loop for one i
inverseStep(result, self, i) ==
  LET sq == mul(result, result)
  IN IF i # 2 /\ i # 4 THEN Then(sq, mul(sq, self)) ELSE sq

\* inverse, the iterations hi, hi - 1, .. lo of the loop in order
RECURSIVE inverseLoop(_, _, _, _)
inverseLoop(result, self, hi, lo) ==
  IF lo = hi THEN inverseStep(result, self, hi)
  ELSE LET mid == (lo + hi) \div 2
           first == inverseLoop(result, self, hi, mid + 1)
       IN Then(first, inverseLoop(first, self, mid, lo))

\* inverse: result = self.clone(); for i in (0..=253).rev() { .. }; result
inverse(self) == inverseLoop(self, self, 253, 0)

\* A swap whose mask lacks the negation: c = b - 1
swapNoNot(self, other, b) ==
  LET c == WSub(b, I64(1))
      t(k) == WAnd(c, WXor(self[k + 1], other[k + 1]))
      p(k) == WXor(self[k + 1], t(k))
      q(k) == WXor(other[k + 1], t(k))
  IN <<Tup16(p), Tup16(q)>>

\* swap: c = !(b - 1); t = c & (p[i] ^ q[i]); p[i] ^= t; q[i] ^= t.
\* The result is the pair <<self, other>> after the call.
swap(self, other, b) ==
  LET c == WNot(WSub(b, I64(1)))
      t(k) == WAnd(c, WXor(self[k + 1], other[k + 1]))
      p(k) == WXor(self[k + 1], t(k))
      q(k) == WXor(other[k + 1], t(k))
  IN <<Tup16(p), Tup16(q)>>

\* A subtraction step that forgets the borrow of the limb below
packSubStepNoBorrow(temp, self, i) ==
  LET t1 == [temp EXCEPT ![i + 1] = WSub(self[i + 1], I64(65535))]
  IN [t1 EXCEPT ![i] = WAnd(@, I64(65535))]

\* pack, the subtraction of p = 2^255 - 19 from self into temp (one round of
\* the loop `for _ in 0..2`, up to the swap): temp.items[0..15] after the
\* round's assignments.
packSubStep(temp, self, i) ==
  LET borrow == WAnd(Shr16(temp[i]), I64(1))
      t1 == [temp EXCEPT ![i + 1] = WSub(WSub(self[i + 1], I64(65535)), borrow)]
  IN [t1 EXCEPT ![i] = WAnd(@, I64(65535))]

\* the iterations lo..hi of `for i in 1..15` in order
RECURSIVE packSubLoop(_, _, _, _)
packSubLoop(temp, self, lo, hi) ==
  IF lo = hi THEN packSubStep(temp, self, lo)
  ELSE LET mid == (lo + hi) \div 2
           first == packSubLoop(temp, self, lo, mid)
       IN Then(first, packSubLoop(first, self, mid + 1, hi))

\* One round of pack's loop: <<self, temp>> after the round.
packRound(self, temp) ==
  LET t0 == [temp EXCEPT ![1] = WSub(self[1], I64(65517))]
      t1 == packSubLoop(t0, self, 1, 14)
      t2 == [t1 EXCEPT ![16] =
               WSub(WSub(self[16], I64(32767)), WAnd(Shr16(t1[15]), I64(1)))]
      cy == WAnd(Shr16(t2[16]), I64(1))
      t3 == [t2 EXCEPT ![15] = WAnd(@, I64(65535))]
  IN Then(t3, swap(self, t3, WSub(I64(1), cy)))

\* A canonicalisation with one round of conditional subtraction
packSelfOneRound(self) ==
  LET c1 == carry(self)
      c2 == Then(c1, carry(c1))
      c3 == Then(c2, carry(c2))
      r1 == Then(c3, packRound(c3, Default16))
  IN Then(r1, r1[1])

\* pack: self after the three carries and the two rounds (pack works on
\* &mut self, so this is what the caller's element holds afterwards).
packSelf(self) ==
  LET c1 == carry(self)
      c2 == Then(c1, carry(c1))
      c3 == Then(c2, carry(c2))
      r1 == Then(c3, packRound(c3, Default16))
      r2 == Then(r1, packRound(r1[1], r1[2]))
  IN Then(r2, r2[1])

\* pack: the bytes written from the canonicalised limbs
packBytes(items) ==
  LET byte(k) == IF k % 2 = 0
                 THEN AsU8(WAnd(items[(k \div 2) + 1], I64(255)))
                 ELSE AsU8(Shr8(items[(k \div 2) + 1]))
  IN Tup32(byte)

pack(self) == packBytes(packSelf(self))

----------------------------------------------------------------------------
(* The inputs of the runs *)

\* Longest chain of operations between unpack and pack that a run applies.
MaxOps == 2

\* Number of pseudo-random byte patterns among the inputs.
NumPatterns == 2

\* The 32 bytes with byte 0 = b0, byte 1 = b1, bytes 2..30 = fill, byte 31 = b31.
Bytes(b0, b1, fill, b31) ==
  LET byte(k) == IF k = 0 THEN b0 ELSE IF k = 1 THEN b1 ELSE IF k = 31 THEN b31 ELSE fill
  IN Tup32(byte)

\* A fixed scrambled pattern of bytes: the n-th "arbitrary" input.
Pattern(n) ==
  LET byte(k) == ((k + 1) * (n + 3) * 73 + (k * k * 29) + n * 151 + 17) % 256
  IN Tup32(byte)

EncZero == Bytes(0, 0, 0, 0)
EncOne == Bytes(1, 0, 0, 0)
EncTwo == Bytes(2, 0, 0, 0)
EncThree == Bytes(3, 0, 0, 0)
\* p - 1, p and p + 1 for p = 2^255 - 19 = 0x7fff...ffed, and 2^255 - 1
EncPm1 == Bytes(236, 255, 255, 127)
EncP == Bytes(237, 255, 255, 127)
EncPp1 == Bytes(238, 255, 255, 127)
EncMax == Bytes(255, 255, 255, 127)
\* top bit set: 2^256 - 1 and 2^255 + 2
EncAllOnes == Bytes(255, 255, 255, 255)
EncTopTwo == Bytes(2, 0, 0, 128)

\* The pairs <<a, b>> of packed inputs of the arithmetic runs.
InputPairs ==
  { <<EncZero, EncOne>>, <<EncTwo, EncThree>>,
    <<EncPm1, EncPm1>>, <<EncP, EncTwo>>, <<EncPp1, EncMax>>,
    <<EncMax, EncMax>>, <<EncMax, EncPm1>>,
    <<EncAllOnes, EncTopTwo>>, <<EncTopTwo, EncAllOnes>>,
    <<Bytes(0, 0, 0, 42), Bytes(0, 0, 0, 21)>>,
    <<Bytes(255, 255, 0, 0), Bytes(0, 128, 0, 0)>>,
    <<Bytes(255, 255, 0, 0), EncOne>>,
    <<Bytes(0, 0, 0, 64), EncMax>>,
    <<Pattern(0), EncPm1>> }
  \cup { <<Pattern(n), Pattern(n + 1)>> : n \in 0..(NumPatterns - 1) }

\* The pairs of the runs that call inverse.
InversePairs ==
  { <<EncZero, EncZero>>, <<EncP, EncP>>, <<EncTwo, EncTwo>>,
    <<EncPm1, EncPm1>>, <<EncMax, EncThree>> }
  \cup { <<Pattern(n), Pattern(n)>> : n \in 0..(NumPatterns - 2) }

----------------------------------------------------------------------------
(* The runs: new -> Unpack -> ready -> operations -> Pack -> packed *)

VARIABLES
  pa, pb,     \* the packed inputs, FieldElement<u8, 32>
  a, b,       \* unpacked_a, unpacked_b
  c,          \* the element the chain works on (unpacked_c); a's clone at first
  lhs, rhs,   \* self and other of the latest call of the chain, as passed
  arg,        \* the element pack was called on, as it was before the call
  hist,       \* the operations applied so far, oldest first
  packed,     \* the result of pack
  pc          \* "new", "ready", "packed"

vars == <<pa, pb, a, b, c, lhs, rhs, arg, hist, packed, pc>>

\* FieldElement::new for both inputs; nothing decoded yet.
InitWith(pairs) ==
  /\ \E pr \in pairs : pa = pr[1] /\ pb = pr[2]
  /\ a = Default16 /\ b = Default16 /\ c = Default16
  /\ lhs = Default16 /\ rhs = Default16 /\ arg = Default16
  /\ hist = <<>>
  /\ packed = Default32
  /\ pc = "new"

Init == InitWith(InputPairs)

InitInverse == InitWith(InversePairs)

\* let unpacked_a = packed_a.unpack(); let unpacked_b = packed_b.unpack();
Unpack ==
  /\ pc = "new"
  /\ a' = unpack(pa)
  /\ b' = unpack(pb)
  /\ c' = unpack(pa)
  /\ pc' = "ready"
  /\ UNCHANGED <<pa, pb, lhs, rhs, arg, hist, packed>>

\* The operand pairs <<self, other>> a call is made on.
Operands == { <<c, b>>, <<b, c>>, <<c, c>> }

CanApply == pc = "ready" /\ Len(hist) < MaxOps

\* The latest operation of the chain, "unpack" when the chain is empty.
LastOp == IF hist = <<>> THEN "unpack" ELSE hist[Len(hist)]

\* c = self.add(&other)
Add ==
  /\ CanApply
  /\ \E o \in Operands :
       /\ c' = add(o[1], o[2])
       /\ lhs' = o[1] /\ rhs' = o[2]
  /\ hist' = Append(hist, "add")
  /\ UNCHANGED <<pa, pb, a, b, arg, packed, pc>>

\* c = self.sub(&other)
Sub ==
  /\ CanApply
  /\ \E o \in Operands :
       /\ c' = sub(o[1], o[2])
       /\ lhs' = o[1] /\ rhs' = o[2]
  /\ hist' = Append(hist, "sub")
  /\ UNCHANGED <<pa, pb, a, b, arg, packed, pc>>

\* c = self.mul(&other)
Mul ==
  /\ CanApply
  /\ \E o \in Operands :
       /\ c' = mul(o[1], o[2])
       /\ lhs' = o[1] /\ rhs' = o[2]
  /\ hist' = Append(hist, "mul")
  /\ UNCHANGED <<pa, pb, a, b, arg, packed, pc>>

\* c.carry()
Carry ==
  /\ CanApply
  /\ c' = carry(c)
  /\ lhs' = c
  /\ hist' = Append(hist, "carry")
  /\ UNCHANGED <<pa, pb, a, b, rhs, arg, packed, pc>>

\* c.swap(&mut b, bit)
Swap ==
  /\ CanApply
  /\ \E bit \in {0, 1} :
       /\ c' = swap(c, b, I64(bit))[1]
       /\ b' = swap(c, b, I64(bit))[2]
       /\ hist' = Append(hist, IF bit = 1 THEN "swap1" ELSE "swap0")
  /\ lhs' = c /\ rhs' = b
  /\ UNCHANGED <<pa, pb, a, arg, packed, pc>>

\* c = c.inverse(), on a decoded element or on a product of decoded elements
Inverse ==
  /\ CanApply
  /\ hist \in {<<>>, <<"mul">>}
  /\ c' = inverse(c)
  /\ lhs' = c
  /\ hist' = Append(hist, "inverse")
  /\ UNCHANGED <<pa, pb, a, b, rhs, arg, packed, pc>>

\* let packed_c = c.pack(); pack canonicalises c in place.
Pack ==
  /\ pc = "ready"
  /\ arg' = c
  /\ c' = packSelf(c)
  /\ packed' = packBytes(packSelf(c))
  /\ pc' = "packed"
  /\ UNCHANGED <<pa, pb, a, b, lhs, rhs, hist>>

Next == Unpack \/ Add \/ Sub \/ Mul \/ Carry \/ Swap \/ Pack

Spec == Init /\ [][Next]_vars

NextInverse == Next \/ Inverse

SpecInverse == InitInverse /\ [][NextInverse]_vars

----------------------------------------------------------------------------
(* The free functions of main.rs on FieldElem = [i64; 16] *)

\* The values that the Rust range lo..=hi yields, in order: none if lo > hi.
RangeInclusive(lo, hi) ==
  IF lo > hi THEN <<>> ELSE [k \in 1..(hi - lo + 1) |-> lo + k - 1]

\* fmul: the statements of the method mul on a and b (and a println)
fmul(x, y) == mul(x, y)

\* finverse, the body of the loop for one i
finverseStep(result, iin, i) ==
  LET sq == fmul(result, result)
  IN IF i # 2 /\ i # 4 THEN Then(sq, fmul(sq, iin)) ELSE sq

\* finverse, the loop over the values range[lo], .., range[hi] in order
RECURSIVE finverseLoop(_, _, _, _, _)
finverseLoop(result, iin, range, lo, hi) ==
  IF lo > hi THEN result
  ELSE IF lo = hi THEN finverseStep(result, iin, range[lo])
  ELSE LET mid == (lo + hi) \div 2
           first == finverseLoop(result, iin, range, lo, mid)
       IN Then(first, finverseLoop(first, iin, range, mid + 1, hi))

\* finverse(mut out: FieldElem, iin: FieldElem): result = iin; for i in
\* 253..=0 { .. }; out[i] = result[i].  FieldElem is Copy and out is taken by
\* value, so the function writes its own copy.  The result is the pair
\* <<the caller's out after the call, the function's out when it returns>>.
finverse(out, iin) ==
  LET range == RangeInclusive(253, 0)
      result == finverseLoop(iin, iin, range, 1, Len(range))
  IN <<out, result>>

\* finverse is a public function that main, as compiled, does not call (its
\* one call, main.rs 321, is inside a comment; main's own run, unpack of 2,
\* inverse, pack, is the behaviour of SpecInverse from <<EncTwo, EncTwo>>).
\* The runs below are those of a caller of the function: pa decodes to the
\* array passed as out, pb to the array passed as iin.
FinversePairs ==
  { <<EncTwo, EncThree>>, <<EncThree, EncTwo>>, <<EncPm1, EncTwo>>,
    <<Pattern(0), Pattern(1)>> }

InitFinverse == InitWith(FinversePairs)

\* finverse(c, b): c is the caller's out, b is iin
Finverse ==
  /\ CanApply
  /\ c' = finverse(c, b)[1]
  /\ lhs' = c /\ rhs' = b
  /\ hist' = Append(hist, "finverse")
  /\ UNCHANGED <<pa, pb, a, b, arg, packed, pc>>

\* The calls of Next and the call of finverse
NextFinverse == Next \/ Finverse

SpecFinverse == InitFinverse /\ [][NextFinverse]_vars

----------------------------------------------------------------------------
(* Arithmetic modulo p on canonical encodings, for stating the claims.     *)
(* A residue is its canonical encoding: 32 bytes, little-endian, of the    *)
(* integer in [0, p).  Nothing here follows the code: numbers are added    *)
(* byte by byte with schoolbook carries and reduced by comparing with and  *)
(* subtracting p.                                                          *)

\* Digits (integers of any sign, least significant first) to bytes: the
\* schoolbook carry.  The value must be non-negative and fit the length.
\* RefNormLoop(d, lo, hi, st): st = <<bytes so far, carry>> taken through
\* the digits lo..hi.
RECURSIVE RefNormLoop(_, _, _, _)
RefNormLoop(d, lo, hi, st) ==
  IF lo = hi
  THEN LET s == d[lo] + st[2] IN <<Append(st[1], s % 256), s \div 256>>
  ELSE LET mid == (lo + hi) \div 2
           first == RefNormLoop(d, lo, mid, st)
       IN Then(first, RefNormLoop(d, mid + 1, hi, first))

RefNorm(d) == RefNormLoop(d, 1, Len(d), <<<<>>, 0>>)[1]

\* x >= y for two byte strings of the same length, as integers
RefGE(x, y) ==
  LET D == {k \in 1..Len(x) : x[k] # y[k]}
  IN \/ D = {}
     \/ LET m == CHOOSE k \in D : \A n \in D : n <= k IN x[m] > y[m]

\* x - p if x >= p, else x (x: 32 bytes)
RefSubPOnce(x) ==
  IF RefGE(x, EncP) THEN RefNorm([k \in 1..32 |-> x[k] - EncP[k]]) ELSE x

\* The residue of a 32-byte integer: below 2^256 < 3p, so two steps suffice.
RefCanon(x) == RefSubPOnce(RefSubPOnce(x))

\* The bytes of an integer 0 <= n < 2^31, as 32 bytes
RefSmall(n) ==
  LET byte(k) == IF k = 0 THEN n % 256
                 ELSE IF k = 1 THEN (n \div 256) % 256
                 ELSE IF k = 2 THEN (n \div 65536) % 256
                 ELSE IF k = 3 THEN n \div 16777216
                 ELSE 0
  IN Tup32(byte)

\* (x + y) mod p for residues x, y: the sum is below 2p < 2^256
RefAdd(x, y) == RefSubPOnce(RefNorm([k \in 1..32 |-> x[k] + y[k]]))

\* (x - y) mod p for residues x, y
RefSub(x, y) ==
  IF RefGE(x, y) THEN RefNorm([k \in 1..32 |-> x[k] - y[k]])
  ELSE RefNorm([k \in 1..32 |-> x[k] + EncP[k] - y[k]])

\* The residue of a 33-byte integer lo + t * 2^256: 2^256 = 2p + 38.
RefReduce(d) == RefAdd(RefCanon(SubSeq(d, 1, 32)), RefSmall(38 * d[33]))

\* (x * 256) mod p and (x * k) mod p for a residue x and a byte k
RefShl8(x) == RefReduce(<<0>> \o x)
RefMulByte(x, k) == RefReduce(RefNorm([j \in 1..33 |-> IF j = 33 THEN 0 ELSE x[j] * k]))

\* (x * y) mod p for residues x, y: Horner's rule over the bytes of y
RECURSIVE RefMulLoop(_, _, _, _, _)
RefMulLoop(x, y, hi, lo, acc) ==
  IF lo = hi THEN RefAdd(RefShl8(acc), RefMulByte(x, y[hi]))
  ELSE LET mid == (lo + hi) \div 2
           first == RefMulLoop(x, y, hi, mid + 1, acc)
       IN Then(first, RefMulLoop(x, y, mid, lo, first))

RefMul(x, y) == RefMulLoop(x, y, 32, 1, EncZero)

\* n mod p for a TLC integer n of any sign
RefOfInt(n) == IF n >= 0 THEN RefSmall(n) ELSE RefSub(EncZero, RefSmall(-n))

\* v mod p for an i64 v = h * 2^16 + l
RefOfI64(v) == RefAdd(RefShl8(RefShl8(RefOfInt(v[1]))), RefSmall(v[2]))

\* (sum of items[i] * 2^(16 i)) mod p: Horner's rule from limb 15 down
RECURSIVE RefValueLoop(_, _, _, _)
RefValueLoop(items, hi, lo, acc) ==
  IF lo = hi THEN RefAdd(RefShl8(RefShl8(acc)), RefOfI64(items[hi]))
  ELSE LET mid == (lo + hi) \div 2
           first == RefValueLoop(items, hi, mid + 1, acc)
       IN Then(first, RefValueLoop(items, mid, lo, first))

RefValue(items) == RefValueLoop(items, 16, 1, EncZero)

\* The residue of the integer that 32 bytes encode with the top bit ignored
RefOfBytes(x) == RefCanon([x EXCEPT ![32] = @ % 128])

----------------------------------------------------------------------------
(* The claims *)

ClaimOps == {"add", "sub", "mul", "inverse"}

\* x has the top bit cleared and encodes an integer below p
BelowP(x) == x[32] < 128 /\ ~RefGE(x, EncP)

\* the value of an operand of the first call of a chain, which is a or b
ValueOf(x) == IF x = a THEN RefOfBytes(pa) ELSE RefOfBytes(pb)

\* all limbs but limb 0 are 0
OnlyLimb0(items) == \A k \in 2..16 : items[k] = I64(0)

\* some limb is negative / exceeds 16 bits
HasNegative(items) == \E k \in 1..16 : items[k][1] < 0
HasWide(items) == \E k \in 1..16 : items[k][1] > 0

\* (p + 1) / 2 = 2^254 - 9, the inverse of 2
EncHalf == Bytes(247, 255, 255, 63)

\* C1 as the specification words it: for every 32-byte input b whose top bit
\* is cleared, pack(unpack(b)) returns the same 32 bytes b.
C1_RoundTripTopBitCleared ==
  (pc = "packed" /\ hist = <<>> /\ pa[32] < 128) => packed = pa

\* C1: for every 32-byte input b whose top bit is cleared and whose integer
\* is below p = 2^255 - 19, pack(unpack(b)) returns the same 32 bytes b; an
\* input encoding an integer from p to 2^255 - 1 comes back as the encoding
\* of that integer minus p, which differs from b.
C1_RoundTripBelowP ==
  /\ (pc = "packed" /\ hist = <<>> /\ BelowP(pa)) => packed = pa
  /\ (pc = "packed" /\ hist = <<>> /\ pa[32] < 128 /\ RefGE(pa, EncP))
       => (packed = RefSubPOnce(pa) /\ packed # pa)

\* a scrambled input below p has gone through unpack and pack
C1_Witness ==
  pc = "packed" /\ hist = <<>> /\ BelowP(pa) /\ pa = Pattern(0)

\* C2: for every limb array that unpack produced, or that a chain of add,
\* sub, mul and inverse produced from unpacked arrays, the bytes pack returns
\* encode an integer in [0, p) congruent mod p to sum(limb[i] * 2^(16 i)) of
\* the array pack was called on.
C2_PackCanonical ==
  (pc = "packed" /\ \A k \in 1..Len(hist) : hist[k] \in ClaimOps)
    => (packed = RefValue(arg) /\ ~RefGE(packed, EncP) /\ packed[32] < 128)

\* pack has canonicalised a difference with negative limbs of a product
C2_Witness ==
  pc = "packed" /\ hist = <<"mul", "sub">> /\ HasNegative(arg) /\ arg[16][1] < 0

\* C3: for every packed a with the top bit cleared whose value is not
\* congruent to 0 mod p, pack(mul(unpack(a), inverse(unpack(a)))), with the
\* operands of mul in either order, is the encoding of 1.
C3_InverseTimesSelf ==
  (/\ pc = "packed" /\ hist = <<"inverse", "mul">>
   /\ pa[32] < 128 /\ RefOfBytes(pa) # EncZero
   /\ b = a /\ (lhs = a \/ rhs = a))
    => packed = EncOne

\* a scrambled a has been inverted, multiplied by its inverse, and packed
C3_Witness ==
  /\ pc = "packed" /\ hist = <<"inverse", "mul">>
  /\ pa = Pattern(0) /\ b = a /\ lhs = a /\ rhs # a

\* C4: for a decoded element whose value is congruent to 0 mod p (the
\* all-zero encoding, the encoding of p), inverse returns an element (one
\* congruent to 0) and pack(inverse(a)) is the all-zero encoding.
C4_InverseOfZero ==
  /\ (pc = "ready" /\ hist = <<"inverse">> /\ RefOfBytes(pa) = EncZero)
       => RefValue(c) = EncZero
  /\ (pc = "packed" /\ hist = <<"inverse">> /\ RefOfBytes(pa) = EncZero)
       => packed = EncZero

\* the encoding of p has been decoded, inverted and packed
C4_Witness ==
  pc = "packed" /\ hist = <<"inverse">> /\ pa = EncP

\* C5: for all decoded a and b, sub(add(a, b), b) has the 16 limbs of a, and
\* packing it gives the bytes of pack(a).
C5_AddThenSub ==
  (hist = <<"add", "sub">> /\ lhs = add(a, b) /\ rhs = b)
    => /\ pc = "ready" => c = a
       /\ pc = "packed" => packed = pack(a)

\* b has been added to a, giving limbs wider than 16 bits, and subtracted
\* again, and the result packed
C5_Witness ==
  /\ pc = "packed" /\ hist = <<"add", "sub">>
  /\ lhs = add(a, b) /\ rhs = b /\ HasWide(lhs) /\ a # b /\ pa[32] < 128

\* C6: for all a and b decoded by unpack, pack(mul(x, y)) for x, y among a
\* and b is the canonical encoding of (value(x) * value(y)) mod p; 2 * 3
\* packs to byte 0 = 6 and all other bytes 0.
C6_MulIsProduct ==
  /\ (pc = "packed" /\ hist = <<"mul">>)
       => packed = RefMul(ValueOf(lhs), ValueOf(rhs))
  /\ (pc = "packed" /\ hist = <<"mul">> /\ pa = EncTwo /\ pb = EncThree
        /\ lhs = a /\ rhs = b)
       => packed = Bytes(6, 0, 0, 0)

\* two different scrambled inputs have been multiplied and packed
C6_Witness ==
  /\ pc = "packed" /\ hist = <<"mul">>
  /\ pa = Pattern(0) /\ pb = Pattern(1) /\ lhs = a /\ rhs = b

\* C7: for all limb arrays x and y that mul was called on,
\* pack(mul(y, x)) = pack(mul(x, y)).
C7_MulCommutes ==
  (pc = "ready" /\ LastOp = "mul") => pack(mul(rhs, lhs)) = pack(c)

\* mul has been called on two different arrays, one with negative limbs
C7_Witness ==
  /\ pc = "ready" /\ hist = <<"sub", "mul">>
  /\ lhs # rhs /\ (HasNegative(lhs) \/ HasNegative(rhs))

\* C8: swap(p, q, 0) leaves p and q unchanged; swap(p, q, 1) leaves p holding
\* the old q and q the old p in all 16 limbs; swap(., ., 1) applied twice
\* restores p and q.
C8_Swap ==
  /\ (pc = "ready" /\ LastOp = "swap0") => (c = lhs /\ b = rhs)
  /\ (pc = "ready" /\ LastOp = "swap1") => (c = rhs /\ b = lhs)
  /\ (pc = "ready" /\ hist = <<"swap1", "swap1">>) => (c = a /\ b = unpack(pb))
  /\ pc = "ready"
       => LET once == swap(c, b, I64(1))
          IN swap(once[1], once[2], I64(1)) = <<c, b>>

\* swap with bit 1 has exchanged two different arrays, one with negative limbs
C8_Witness ==
  /\ pc = "ready" /\ hist = <<"sub", "swap1">>
  /\ lhs # rhs /\ HasNegative(lhs) /\ c = rhs /\ b = lhs

\* C9: for the encoding of 2, pack(inverse(unpack(.))) is the canonical
\* encoding of (p + 1) / 2, and that inverse multiplied by 2 packs to the
\* encoding of 1.
C9_InverseOfTwo ==
  /\ (pc = "packed" /\ hist = <<"inverse">> /\ pa = EncTwo) => packed = EncHalf
  /\ (pc = "packed" /\ hist = <<"inverse", "mul">> /\ pa = EncTwo /\ pb = EncTwo
        /\ (lhs = b \/ rhs = b))
       => packed = EncOne

\* the inverse of 2 has been multiplied by 2 and packed
C9_Witness ==
  /\ pc = "packed" /\ hist = <<"inverse", "mul">>
  /\ pa = EncTwo /\ pb = EncTwo /\ rhs = b /\ lhs # b

\* C10: one carry call on limb[0] = 0x1ffff, others 0, yields limb[0] =
\* 0xffff, limb[1] = 1, others 0; for limb[0] = v with 2^16 <= v < 2^17 and
\* the rest 0, it yields limb[0] = v - 2^16, limb[1] = 1, others 0.
C10_CarryUnit ==
  /\ carry([Default16 EXCEPT ![1] = I64(131071)])
       = [Default16 EXCEPT ![1] = I64(65535), ![2] = I64(1)]
  /\ (pc = "ready" /\ LastOp = "carry" /\ OnlyLimb0(lhs) /\ lhs[1][1] = 1)
       => c = [Default16 EXCEPT ![1] = <<0, lhs[1][2]>>, ![2] = I64(1)]

\* carry has been called on an array with limb[0] in [2^16, 2^17), others 0
C10_Witness ==
  /\ pc = "ready" /\ LastOp = "carry"
  /\ OnlyLimb0(lhs) /\ lhs[1][1] = 1 /\ c # lhs

\* An i64 of the model as an integer (for values below 2^31 in magnitude)
ToInt(x) == x[1] * B16 + x[2]

\* The carry out of limb k - 1 in a left-to-right pass over items, by floor
\* division of integers: 0 into limb 0.
RECURSIVE RefCarryOut(_, _)
RefCarryOut(items, k) ==
  IF k = 0 THEN 0
  ELSE LET cin == RefCarryOut(items, k - 1)
       IN Then(cin, (ToInt(items[k]) + cin) \div 65536)

\* C11: immediately after one carry call on any limb array (negative limbs
\* included), every limb 1..15 lies in [0, 2^16), and limb 0 is its old value
\* mod 2^16 plus 38 * c, c the carry out of limb 15.
C11_CarryPostcondition ==
  (pc = "ready" /\ LastOp = "carry")
    => /\ \A k \in 2..16 : c[k][1] = 0 /\ c[k][2] \in 0..65535
       /\ ToInt(c[1]) = lhs[1][2] + 38 * RefCarryOut(lhs, 16)

\* carry has been called on an array with negative limbs and has left
\* limb 0 negative
C11_Witness ==
  /\ pc = "ready" /\ LastOp = "carry"
  /\ HasNegative(lhs) /\ c[1][1] < 0 /\ RefCarryOut(lhs, 16) < 0

\* the limbs that the bytes x decode to, with limb 15 masked to 15 bits
RefLimbs(x) ==
  [k \in 1..16 |->
     IF k < 16 THEN <<0, x[2 * k - 1] + 256 * x[2 * k]>>
     ELSE <<0, (x[31] + 256 * x[32]) % 32768>>]

\* C12: for every 32-byte input, unpack returns limb[i] = byte[2i] +
\* 256 * byte[2i+1] for i in 0..14 and limb[15] = (byte[30] + 256 * byte[31])
\* & 0x7fff; every limb is in [0, 2^16), limb 15 below 2^15 (the value is
\* below 2^255), and an input with the top bit set decodes to the limbs of
\* that input with the top bit cleared.
C12_UnpackDecodes ==
  pc # "new"
    => /\ a = RefLimbs(pa)
       /\ unpack(pb) = RefLimbs(pb)
       /\ \A k \in 1..16 : a[k][1] = 0 /\ a[k][2] \in 0..65535
       /\ a[16][2] < 32768
       /\ a = unpack([pa EXCEPT ![32] = @ % 128])

\* an input with the top bit set has been decoded
C12_Witness ==
  pc = "ready" /\ hist = <<>> /\ pa[32] >= 128 /\ c = a /\ a[16][2] = 32767

\* C14: for all a and b decoded by unpack, pack(sub(x, y)) for x, y among a
\* and b is the canonical encoding of (value(x) - value(y)) mod p and
\* pack(add(x, y)) that of (value(x) + value(y)) mod p, also when value(x) <
\* value(y) and sub has produced negative limbs.
C14_AddSubValues ==
  /\ (pc = "packed" /\ hist = <<"sub">>)
       => packed = RefSub(ValueOf(lhs), ValueOf(rhs))
  /\ (pc = "packed" /\ hist = <<"add">>)
       => packed = RefAdd(ValueOf(lhs), ValueOf(rhs))

\* a difference of a smaller and a larger value, with negative limbs, has
\* been packed
C14_Witness ==
  /\ pc = "packed" /\ hist = <<"sub">>
  /\ HasNegative(arg) /\ arg[16][1] < 0
  /\ ~RefGE(ValueOf(lhs), ValueOf(rhs))

\* x is below 2^42 in magnitude (its high part below 2^26), far inside the
\* signed 64-bit range
Fits(x) == x[1] >= -(2 ^ 26) /\ x[1] < 2 ^ 26
AllFit(items) == \A k \in 1..Len(items) : Fits(items[k])
NoNegative(items) == \A k \in 1..Len(items) : items[k][1] >= 0

\* mul(x, y) with its intermediate values examined: <<result, ok>>.  ok says
\* that no limb of x or y is negative, so that every term x[i] * y[j], every
\* partial sum of product[i + j] and every 38 * product[i + 16] lies between
\* 0 and an entry of the folded product, and that the product before and
\* after the fold and the array after each carry pass fit.
MulChecked(x, y) ==
  LET pr == mulLoop(Product0, x, y, 0, 15)
      fd == Then(pr, mulFold(pr))
      c1 == Then(fd, carry(SubSeq(fd, 1, 16)))
      c2 == Then(c1, carry(c1))
  IN Then(c2, <<c2, /\ NoNegative(x) /\ NoNegative(y)
                    /\ AllFit(pr) /\ AllFit(fd) /\ AllFit(c1) /\ AllFit(c2)>>)

\* One iteration of inverse on st = <<result, ok>>, its calls of mul examined
InverseCheckedStep(st, self, i) ==
  LET sq == MulChecked(st[1], st[1])
      ml == Then(sq, MulChecked(sq[1], self))
  IN IF i # 2 /\ i # 4
     THEN Then(ml, <<ml[1], st[2] /\ sq[2] /\ ml[2]>>)
     ELSE Then(sq, <<sq[1], st[2] /\ sq[2]>>)

\* The iterations hi, hi - 1, .. lo of inverse in order
RECURSIVE InverseCheckedLoop(_, _, _, _)
InverseCheckedLoop(st, self, hi, lo) ==
  IF lo = hi THEN InverseCheckedStep(st, self, hi)
  ELSE LET mid == (lo + hi) \div 2
           first == InverseCheckedLoop(st, self, hi, mid + 1)
       IN Then(first, InverseCheckedLoop(first, self, mid, lo))

\* inverse(self) with all 254 iterations examined: <<result, ok>>
InverseChecked(self) == InverseCheckedLoop(<<self, TRUE>>, self, 253, 0)

\* pack(self): the array after each carry and self and temp after each round
PackFits(self) ==
  LET c1 == carry(self)
      c2 == Then(c1, carry(c1))
      c3 == Then(c2, carry(c2))
      r1 == Then(c3, packRound(c3, Default16))
      r2 == Then(r1, packRound(r1[1], r1[2]))
  IN Then(r2, /\ AllFit(self) /\ AllFit(c1) /\ AllFit(c2) /\ AllFit(c3)
              /\ AllFit(r1[1]) /\ AllFit(r1[2])
              /\ AllFit(r2[1]) /\ AllFit(r2[2]))

\* C15: for inputs decoded by unpack, every value computed in add, sub, mul
\* (the 32-limb product, the fold and both carry passes), in each of the 254
\* iterations of inverse, and in pack is below 2^42 in magnitude, so it is
\* within the signed 64-bit range and the results are those of
\* unbounded-integer arithmetic.
C15_NoOverflow ==
  /\ (pc = "ready" /\ Len(hist) = 1 /\ hist[1] \in {"add", "sub"}) => AllFit(c)
  /\ (pc = "ready" /\ hist = <<"mul">>) => MulChecked(lhs, rhs) = <<c, TRUE>>
  /\ (pc = "ready" /\ hist = <<"inverse">>)
       => InverseChecked(lhs) = <<c, TRUE>>
  /\ (pc = "packed" /\ Len(hist) <= 1 /\ \A k \in 1..Len(hist) : hist[k] \in ClaimOps)
       => PackFits(arg)

\* inverse has run its 254 iterations on the decoded 2^255 - 1, whose limbs
\* are the largest that unpack returns
C15_Witness ==
  pc = "ready" /\ hist = <<"inverse">> /\ pa = EncMax /\ lhs = a /\ c # a

\* C16 as the specification words it: finverse(out, iin) counts down from
\* bit 253 to bit 0, and at the end the caller's out holds iin^(p-2), the
\* value the method inverse computes for iin.
C16_FinverseGivesInverse ==
  (pc = "ready" /\ LastOp = "finverse") => pack(c) = pack(inverse(rhs))

\* C16, the behaviour of the code: the range 253..=0 is empty, so its result is iin
\* itself, and the caller's out is as it was before the call.
C16_FinverseLeavesOut ==
  (pc = "ready" /\ LastOp = "finverse")
    => /\ c = lhs
       /\ finverse(lhs, rhs)[2] = rhs
       /\ RangeInclusive(253, 0) = <<>>

\* finverse has been called with out = 2 and iin = 3
C16_Witness ==
  /\ pc = "ready" /\ hist = <<"finverse">>
  /\ pa = EncTwo /\ pb = EncThree /\ lhs = a /\ rhs = b

====
